---- MODULE Spec2Model ----
(***************************************************************************)
(* Model of src/lambda_function.py: a scheduled handler that reads a list  *)
(* of URLs from an S3 configuration object, probes each URL, and keeps a   *)
(* per-URL "down" flag object in S3 to decide when to publish a down or a  *)
(* recovery notification to SNS.                                           *)
(*                                                                         *)
(* Strings that the code takes apart (URLs, the STS date header) are       *)
(* sequences of one-character strings.  An optional value (Python None or  *)
(* a value) is a sequence of length 0 or 1.  Every call to a collaborator   *)
(* (S3, STS, SNS, urllib) is one step of the handler, so that invocations  *)
(* can be interleaved at exactly the points where the code leaves the      *)
(* process.                                                                *)
(***************************************************************************)
EXTENDS Integers, Sequences, FiniteSets, TLC

\* ------------------------------------------------------------------ bounds
\* Longest configured URL list that is enumerated.
MaxUrls == 2
\* The per-outage alert counter (a history variable) stops counting here.
MaxAlerts == 2

\* ----------------------------------------------------------- option values
None == << >>
Some(x) == << x >>

\* --------------------------------------------------------------- strings
StartsWith(s, pre) ==
    /\ Len(s) >= Len(pre)
    /\ SubSeq(s, 1, Len(pre)) = pre

\* str.replace(old, new): left to right, non-overlapping, every occurrence.
RECURSIVE Replace(_, _, _)
Replace(s, old, new) ==
    IF s = << >> THEN << >>
    ELSE IF StartsWith(s, old)
         THEN new \o Replace(SubSeq(s, Len(old) + 1, Len(s)), old, new)
         ELSE << Head(s) >> \o Replace(Tail(s), old, new)

\* str.split(sep)[0]: everything before the first occurrence of the character.
RECURSIVE SplitFirst(_, _)
SplitFirst(s, sep) ==
    IF s = << >> THEN << >>
    ELSE IF Head(s) = sep THEN << >>
         ELSE << Head(s) >> \o SplitFirst(Tail(s), sep)

HttpScheme == << "h", "t", "t", "p", ":", "/", "/" >>
HttpsScheme == << "h", "t", "t", "p", "s", ":", "/", "/" >>

get_domain_from_url(url) ==
    LET stripped == Replace(Replace(url, HttpScheme, << >>), HttpsScheme, << >>)
    IN  Replace(SplitFirst(stripped, "/"), << ":" >>, << "_" >>)

\* f"flags/{get_domain_from_url(url)}.flag"
FlagKey(url) == << "flags/" >> \o get_domain_from_url(url) \o << ".flag" >>

\* f"ALERT: {url} is DOWN" and f"RESOLVED: {url} is back UP"
AlertSubject(url) == << "ALERT: " >> \o url \o << " is DOWN" >>
RecoverySubject(url) == << "RESOLVED: " >> \o url \o << " is back UP" >>

\* ------------------------------------------------------- int(<str>) of Python
\* A character is a one-character string; a character outside printable ASCII
\* is written as one of the escapes \t, \n, \r, \f or by its code point,
\* "U+0663" for ARABIC-INDIC DIGIT THREE.
\* The decimal digits int() accepts (Unicode category Nd, Unicode 14.0.0), in
\* code point order: runs of ten, each from its zero to its nine.
Digits ==
    <<
      "0", "1", "2", "3", "4", "5", "6", "7", "8", "9",
      "U+0660", "U+0661", "U+0662", "U+0663", "U+0664", "U+0665", "U+0666", "U+0667", "U+0668", "U+0669",
      "U+06F0", "U+06F1", "U+06F2", "U+06F3", "U+06F4", "U+06F5", "U+06F6", "U+06F7", "U+06F8", "U+06F9",
      "U+07C0", "U+07C1", "U+07C2", "U+07C3", "U+07C4", "U+07C5", "U+07C6", "U+07C7", "U+07C8", "U+07C9",
      "U+0966", "U+0967", "U+0968", "U+0969", "U+096A", "U+096B", "U+096C", "U+096D", "U+096E", "U+096F",
      "U+09E6", "U+09E7", "U+09E8", "U+09E9", "U+09EA", "U+09EB", "U+09EC", "U+09ED", "U+09EE", "U+09EF",
      "U+0A66", "U+0A67", "U+0A68", "U+0A69", "U+0A6A", "U+0A6B", "U+0A6C", "U+0A6D", "U+0A6E", "U+0A6F",
      "U+0AE6", "U+0AE7", "U+0AE8", "U+0AE9", "U+0AEA", "U+0AEB", "U+0AEC", "U+0AED", "U+0AEE", "U+0AEF",
      "U+0B66", "U+0B67", "U+0B68", "U+0B69", "U+0B6A", "U+0B6B", "U+0B6C", "U+0B6D", "U+0B6E", "U+0B6F",
      "U+0BE6", "U+0BE7", "U+0BE8", "U+0BE9", "U+0BEA", "U+0BEB", "U+0BEC", "U+0BED", "U+0BEE", "U+0BEF",
      "U+0C66", "U+0C67", "U+0C68", "U+0C69", "U+0C6A", "U+0C6B", "U+0C6C", "U+0C6D", "U+0C6E", "U+0C6F",
      "U+0CE6", "U+0CE7", "U+0CE8", "U+0CE9", "U+0CEA", "U+0CEB", "U+0CEC", "U+0CED", "U+0CEE", "U+0CEF",
      "U+0D66", "U+0D67", "U+0D68", "U+0D69", "U+0D6A", "U+0D6B", "U+0D6C", "U+0D6D", "U+0D6E", "U+0D6F",
      "U+0DE6", "U+0DE7", "U+0DE8", "U+0DE9", "U+0DEA", "U+0DEB", "U+0DEC", "U+0DED", "U+0DEE", "U+0DEF",
      "U+0E50", "U+0E51", "U+0E52", "U+0E53", "U+0E54", "U+0E55", "U+0E56", "U+0E57", "U+0E58", "U+0E59",
      "U+0ED0", "U+0ED1", "U+0ED2", "U+0ED3", "U+0ED4", "U+0ED5", "U+0ED6", "U+0ED7", "U+0ED8", "U+0ED9",
      "U+0F20", "U+0F21", "U+0F22", "U+0F23", "U+0F24", "U+0F25", "U+0F26", "U+0F27", "U+0F28", "U+0F29",
      "U+1040", "U+1041", "U+1042", "U+1043", "U+1044", "U+1045", "U+1046", "U+1047", "U+1048", "U+1049",
      "U+1090", "U+1091", "U+1092", "U+1093", "U+1094", "U+1095", "U+1096", "U+1097", "U+1098", "U+1099",
      "U+17E0", "U+17E1", "U+17E2", "U+17E3", "U+17E4", "U+17E5", "U+17E6", "U+17E7", "U+17E8", "U+17E9",
      "U+1810", "U+1811", "U+1812", "U+1813", "U+1814", "U+1815", "U+1816", "U+1817", "U+1818", "U+1819",
      "U+1946", "U+1947", "U+1948", "U+1949", "U+194A", "U+194B", "U+194C", "U+194D", "U+194E", "U+194F",
      "U+19D0", "U+19D1", "U+19D2", "U+19D3", "U+19D4", "U+19D5", "U+19D6", "U+19D7", "U+19D8", "U+19D9",
      "U+1A80", "U+1A81", "U+1A82", "U+1A83", "U+1A84", "U+1A85", "U+1A86", "U+1A87", "U+1A88", "U+1A89",
      "U+1A90", "U+1A91", "U+1A92", "U+1A93", "U+1A94", "U+1A95", "U+1A96", "U+1A97", "U+1A98", "U+1A99",
      "U+1B50", "U+1B51", "U+1B52", "U+1B53", "U+1B54", "U+1B55", "U+1B56", "U+1B57", "U+1B58", "U+1B59",
      "U+1BB0", "U+1BB1", "U+1BB2", "U+1BB3", "U+1BB4", "U+1BB5", "U+1BB6", "U+1BB7", "U+1BB8", "U+1BB9",
      "U+1C40", "U+1C41", "U+1C42", "U+1C43", "U+1C44", "U+1C45", "U+1C46", "U+1C47", "U+1C48", "U+1C49",
      "U+1C50", "U+1C51", "U+1C52", "U+1C53", "U+1C54", "U+1C55", "U+1C56", "U+1C57", "U+1C58", "U+1C59",
      "U+A620", "U+A621", "U+A622", "U+A623", "U+A624", "U+A625", "U+A626", "U+A627", "U+A628", "U+A629",
      "U+A8D0", "U+A8D1", "U+A8D2", "U+A8D3", "U+A8D4", "U+A8D5", "U+A8D6", "U+A8D7", "U+A8D8", "U+A8D9",
      "U+A900", "U+A901", "U+A902", "U+A903", "U+A904", "U+A905", "U+A906", "U+A907", "U+A908", "U+A909",
      "U+A9D0", "U+A9D1", "U+A9D2", "U+A9D3", "U+A9D4", "U+A9D5", "U+A9D6", "U+A9D7", "U+A9D8", "U+A9D9",
      "U+A9F0", "U+A9F1", "U+A9F2", "U+A9F3", "U+A9F4", "U+A9F5", "U+A9F6", "U+A9F7", "U+A9F8", "U+A9F9",
      "U+AA50", "U+AA51", "U+AA52", "U+AA53", "U+AA54", "U+AA55", "U+AA56", "U+AA57", "U+AA58", "U+AA59",
      "U+ABF0", "U+ABF1", "U+ABF2", "U+ABF3", "U+ABF4", "U+ABF5", "U+ABF6", "U+ABF7", "U+ABF8", "U+ABF9",
      "U+FF10", "U+FF11", "U+FF12", "U+FF13", "U+FF14", "U+FF15", "U+FF16", "U+FF17", "U+FF18", "U+FF19",
      "U+104A0", "U+104A1", "U+104A2", "U+104A3", "U+104A4", "U+104A5", "U+104A6", "U+104A7", "U+104A8", "U+104A9",
      "U+10D30", "U+10D31", "U+10D32", "U+10D33", "U+10D34", "U+10D35", "U+10D36", "U+10D37", "U+10D38", "U+10D39",
      "U+11066", "U+11067", "U+11068", "U+11069", "U+1106A", "U+1106B", "U+1106C", "U+1106D", "U+1106E", "U+1106F",
      "U+110F0", "U+110F1", "U+110F2", "U+110F3", "U+110F4", "U+110F5", "U+110F6", "U+110F7", "U+110F8", "U+110F9",
      "U+11136", "U+11137", "U+11138", "U+11139", "U+1113A", "U+1113B", "U+1113C", "U+1113D", "U+1113E", "U+1113F",
      "U+111D0", "U+111D1", "U+111D2", "U+111D3", "U+111D4", "U+111D5", "U+111D6", "U+111D7", "U+111D8", "U+111D9",
      "U+112F0", "U+112F1", "U+112F2", "U+112F3", "U+112F4", "U+112F5", "U+112F6", "U+112F7", "U+112F8", "U+112F9",
      "U+11450", "U+11451", "U+11452", "U+11453", "U+11454", "U+11455", "U+11456", "U+11457", "U+11458", "U+11459",
      "U+114D0", "U+114D1", "U+114D2", "U+114D3", "U+114D4", "U+114D5", "U+114D6", "U+114D7", "U+114D8", "U+114D9",
      "U+11650", "U+11651", "U+11652", "U+11653", "U+11654", "U+11655", "U+11656", "U+11657", "U+11658", "U+11659",
      "U+116C0", "U+116C1", "U+116C2", "U+116C3", "U+116C4", "U+116C5", "U+116C6", "U+116C7", "U+116C8", "U+116C9",
      "U+11730", "U+11731", "U+11732", "U+11733", "U+11734", "U+11735", "U+11736", "U+11737", "U+11738", "U+11739",
      "U+118E0", "U+118E1", "U+118E2", "U+118E3", "U+118E4", "U+118E5", "U+118E6", "U+118E7", "U+118E8", "U+118E9",
      "U+11950", "U+11951", "U+11952", "U+11953", "U+11954", "U+11955", "U+11956", "U+11957", "U+11958", "U+11959",
      "U+11C50", "U+11C51", "U+11C52", "U+11C53", "U+11C54", "U+11C55", "U+11C56", "U+11C57", "U+11C58", "U+11C59",
      "U+11D50", "U+11D51", "U+11D52", "U+11D53", "U+11D54", "U+11D55", "U+11D56", "U+11D57", "U+11D58", "U+11D59",
      "U+11DA0", "U+11DA1", "U+11DA2", "U+11DA3", "U+11DA4", "U+11DA5", "U+11DA6", "U+11DA7", "U+11DA8", "U+11DA9",
      "U+16A60", "U+16A61", "U+16A62", "U+16A63", "U+16A64", "U+16A65", "U+16A66", "U+16A67", "U+16A68", "U+16A69",
      "U+16AC0", "U+16AC1", "U+16AC2", "U+16AC3", "U+16AC4", "U+16AC5", "U+16AC6", "U+16AC7", "U+16AC8", "U+16AC9",
      "U+16B50", "U+16B51", "U+16B52", "U+16B53", "U+16B54", "U+16B55", "U+16B56", "U+16B57", "U+16B58", "U+16B59",
      "U+1D7CE", "U+1D7CF", "U+1D7D0", "U+1D7D1", "U+1D7D2", "U+1D7D3", "U+1D7D4", "U+1D7D5", "U+1D7D6", "U+1D7D7",
      "U+1D7D8", "U+1D7D9", "U+1D7DA", "U+1D7DB", "U+1D7DC", "U+1D7DD", "U+1D7DE", "U+1D7DF", "U+1D7E0", "U+1D7E1",
      "U+1D7E2", "U+1D7E3", "U+1D7E4", "U+1D7E5", "U+1D7E6", "U+1D7E7", "U+1D7E8", "U+1D7E9", "U+1D7EA", "U+1D7EB",
      "U+1D7EC", "U+1D7ED", "U+1D7EE", "U+1D7EF", "U+1D7F0", "U+1D7F1", "U+1D7F2", "U+1D7F3", "U+1D7F4", "U+1D7F5",
      "U+1D7F6", "U+1D7F7", "U+1D7F8", "U+1D7F9", "U+1D7FA", "U+1D7FB", "U+1D7FC", "U+1D7FD", "U+1D7FE", "U+1D7FF",
      "U+1E140", "U+1E141", "U+1E142", "U+1E143", "U+1E144", "U+1E145", "U+1E146", "U+1E147", "U+1E148", "U+1E149",
      "U+1E2F0", "U+1E2F1", "U+1E2F2", "U+1E2F3", "U+1E2F4", "U+1E2F5", "U+1E2F6", "U+1E2F7", "U+1E2F8", "U+1E2F9",
      "U+1E950", "U+1E951", "U+1E952", "U+1E953", "U+1E954", "U+1E955", "U+1E956", "U+1E957", "U+1E958", "U+1E959",
      "U+1FBF0", "U+1FBF1", "U+1FBF2", "U+1FBF3", "U+1FBF4", "U+1FBF5", "U+1FBF6", "U+1FBF7", "U+1FBF8", "U+1FBF9"
    >>
DigitSet == { Digits[d] : d \in 1..Len(Digits) }
IsDigit(c) == c \in DigitSet
DigitVal(c) == ((CHOOSE d \in 1..Len(Digits) : Digits[d] = c) - 1) % 10
\* The whitespace int() strips from both ends.
Spaces ==
    {
      "\t", "\n", "U+000B", "\f", "\r", " ", "U+0085", "U+00A0",
      "U+1680", "U+2000", "U+2001", "U+2002", "U+2003", "U+2004", "U+2005", "U+2006",
      "U+2007", "U+2008", "U+2009", "U+200A", "U+2028", "U+2029", "U+202F", "U+205F",
      "U+3000"
    }
IsSpace(c) == c \in Spaces

RECURSIVE LStrip(_)
LStrip(s) == IF s # << >> /\ IsSpace(Head(s)) THEN LStrip(Tail(s)) ELSE s
RECURSIVE RStrip(_)
RStrip(s) ==
    IF s # << >> /\ IsSpace(s[Len(s)]) THEN RStrip(SubSeq(s, 1, Len(s) - 1)) ELSE s

\* Digits, with single underscores allowed between two digits.
IsDigitRun(s) ==
    /\ s # << >>
    /\ IsDigit(s[1])
    /\ IsDigit(s[Len(s)])
    /\ \A k \in 1..Len(s) : IsDigit(s[k]) \/ s[k] = "_"
    /\ \A k \in 1..(Len(s) - 1) : ~(s[k] = "_" /\ s[k + 1] = "_")

RECURSIVE DigitRunVal(_, _)
DigitRunVal(s, acc) ==
    IF s = << >> THEN acc
    ELSE IF Head(s) = "_" THEN DigitRunVal(Tail(s), acc)
         ELSE DigitRunVal(Tail(s), 10 * acc + DigitVal(Head(s)))

\* The most digits int() converts (sys.get_int_max_str_digits() by default).
MaxStrDigits == 4300
DigitCount(s) == Cardinality({ k \in 1..Len(s) : IsDigit(s[k]) })

\* int(s): None when Python raises ValueError, else the value.  A literal of
\* more than MaxStrDigits digits (leading zeros count, underscores do not) is
\* a ValueError too.
ParseInt(s) ==
    LET t == RStrip(LStrip(s))
        signed == t # << >> /\ (t[1] = "+" \/ t[1] = "-")
        body == IF signed THEN Tail(t) ELSE t
    IN  IF IsDigitRun(body) /\ DigitCount(body) <= MaxStrDigits
        THEN Some(IF signed /\ t[1] = "-" THEN 0 - DigitRunVal(body, 0)
                  ELSE DigitRunVal(body, 0))
        ELSE None

\* ------------------------------------------------------------ input domains
\* Monitored URLs.  The first two name the same flag (scheme and path are
\* cut, ':' becomes '_'); the third names another one.  UrlC is never listed:
\* it is a character of the string document of ShapeDocs.
UrlA == << "a", ":", "8" >>
UrlA2 == << "h", "t", "t", "p", "s", ":", "/", "/", "a", "_", "8", "/", "p" >>
UrlB == << "b" >>
UrlC == << "c" >>
ListedUrls == { UrlA, UrlA2, UrlB }
Urls == ListedUrls \cup { UrlC }

\* The lists of at most n URLs that name each URL once.
Range(q) == { q[k] : k \in 1..Len(q) }

RECURSIVE ListsUpTo(_, _)
ListsUpTo(S, n) ==
    IF n = 0 THEN { << >> }
    ELSE LET shorter == ListsUpTo(S, n - 1)
         IN  shorter \cup UNION { { Append(q, x) : x \in S \ Range(q) } :
                                    q \in { r \in shorter : Len(r) = n - 1 } }

\* What the configuration object can hold.  "list": {"urls": [...]};
\* "missing": an object without 'urls'; "string": {"urls": "b"};
\* "number": {"urls": 5}; "array": a top-level JSON array; "invalid": not JSON.
ConfigDocs ==
    { [shape |-> "list", urls |-> l] : l \in ListsUpTo(ListedUrls, MaxUrls) }
    \cup { [shape |-> s, urls |-> << >>] : s \in { "missing", "number", "array", "invalid" } }
    \cup { [shape |-> "string", urls |-> UrlB] }

\* The documents of every shape, for the handler run on its configuration
\* alone: one list, and {"urls": "bc"}, a string of two characters.
ShapeDocs ==
    { [shape |-> "list", urls |-> << UrlB >>] }
    \cup { [shape |-> s, urls |-> << >>] : s \in { "missing", "number", "array", "invalid" } }
    \cup { [shape |-> "string", urls |-> << "b", "c" >>] }

\* os.environ.get('SNS_TOPIC_ARN'): unset, empty, or an ARN.
TopicArn == "arn:aws:sns:us-east-1:1:ping"
SnsTopicArnValues == { None, Some(""), Some(TopicArn) }

\* Outcomes of urllib.request.urlopen.
ProbeOutcomes ==
    { [kind |-> "response", code |-> 200],
      [kind |-> "HTTPError", code |-> 500],
      [kind |-> "URLError", code |-> 0] }

\* The 'date' header of the STS response: an HTTP date, or (a stubbed
\* collaborator) epoch seconds.
HttpDate ==
    << "T", "h", "u", ",", " ", "2", "9", " ", "O", "c", "t", " ",
       "2", "0", "2", "6", " ", "0", "0", ":", "2", "3", ":", "0", "0",
       " ", "G", "M", "T" >>
EpochDate == << "1", "7" >>
\* The same seconds in a form int() also accepts: surrounded by whitespace,
\* with an ARABIC-INDIC DIGIT ONE.
PaddedDate == << "\t", "U+0661", "7", "\n" >>
DateHeaders == { HttpDate, EpochDate, PaddedDate }

Procs == { 1, 2 }

\* ------------------------------------------------------------------- state
VARIABLES
    flags,        \* the flags bucket: key -> None, or the body of the flag object
    alerts,       \* history: url -> down-notifications published in its current outage
    pc,           \* invocation -> position in lambda_handler
    sns_topic_arn,\* invocation -> os.environ.get('SNS_TOPIC_ARN')
    config,       \* invocation -> the configuration document fetched
    urls,         \* invocation -> the list being iterated
    idx,          \* invocation -> position of the for loop (1-based)
    status,       \* invocation -> ping_url's result for the current URL
    flag_exists,  \* invocation -> check_flag_exists' result for the current URL
    results,      \* invocation -> the records appended so far
    response,     \* invocation -> the value returned, once returned
    log,          \* invocation -> the collaborator calls made so far, in order
    notice,       \* history: key -> what became of the down-notification of its flag
    probe,        \* ping_url on its own: the URL, urlopen's outcome, the result
    timestamp     \* invocation -> int() of the STS date, until put_object is called

vars == << flags, alerts, pc, sns_topic_arn, config, urls, idx, status, flag_exists,
           results, response, log, notice, probe, timestamp >>

NoStatus == [is_up |-> FALSE, status_code |-> None, error |-> None]
NoConfig == [shape |-> "none", urls |-> << >>]
NoResponse == [statusCode |-> 0, body |-> [message |-> << >>, results |-> << >>]]

NoProbe == [url |-> << >>, outcome |-> [kind |-> "none", code |-> 0], result |-> None]

Call(op, arg, ok, out) == [op |-> op, arg |-> arg, ok |-> ok, out |-> out]

\* flags/<domain>.flag for every URL the model configures.
FlagKeys == { FlagKey(u) : u \in Urls }

\* The handler has never run: an empty flags bucket, every invocation idle.
InitHandler ==
    /\ flags = [k \in FlagKeys |-> None]
    /\ alerts = [u \in Urls |-> 0]
    /\ pc = [p \in Procs |-> "idle"]
    /\ sns_topic_arn = [p \in Procs |-> None]
    /\ config = [p \in Procs |-> NoConfig]
    /\ urls = [p \in Procs |-> << >>]
    /\ idx = [p \in Procs |-> 0]
    /\ status = [p \in Procs |-> NoStatus]
    /\ flag_exists = [p \in Procs |-> FALSE]
    /\ results = [p \in Procs |-> << >>]
    /\ response = [p \in Procs |-> NoResponse]
    /\ log = [p \in Procs |-> << >>]
    /\ notice = [k \in FlagKeys |-> "none"]
    /\ timestamp = [p \in Procs |-> None]

Init ==
    /\ InitHandler
    /\ probe = NoProbe

\* ------------------------------------------------------------------ helpers
CurUrl(p) == urls[p][idx[p]]

\* As flag_key, but always the key of the first URL of the list.
flag_key_first(p) == FlagKey(urls[p][1])

\* lines 44: the key of the flag of the URL under evaluation.
flag_key(p) == FlagKey(CurUrl(p))

\* lines 30-31: an exception raised before the try of line 33 leaves
\* lambda_handler; the invocation ends without a response.
Propagate(p) ==
    /\ pc' = [pc EXCEPT ![p] = "raised"]
    /\ UNCHANGED response

\* lines 83-88: any exception raised inside the try ends the run with status
\* 500 and the error text.
Raise(p, e) ==
    /\ pc' = [pc EXCEPT ![p] = "done"]
    /\ response' = [response EXCEPT ![p] =
           [statusCode |-> 500,
            body |-> [message |-> << "Error: ", e >>, results |-> << >>]]]

\* As AppendResult, but the record holds the flag's presence after the action.
AppendResultAfter(p, fe) ==
    /\ results' = [results EXCEPT ![p] =
           Append(@, [url |-> CurUrl(p), status |-> status[p],
                      flag_exists |-> flags[FlagKey(CurUrl(p))] # None])]
    /\ idx' = [idx EXCEPT ![p] = @ + 1]
    /\ pc' = [pc EXCEPT ![p] = "loop"]
    /\ UNCHANGED response

\* lines 69-73: append the record of the URL and go on with the next one.
AppendResult(p, fe) ==
    /\ results' = [results EXCEPT ![p] =
           Append(@, [url |-> CurUrl(p), status |-> status[p], flag_exists |-> fe])]
    /\ idx' = [idx EXCEPT ![p] = @ + 1]
    /\ pc' = [pc EXCEPT ![p] = "loop"]
    /\ UNCHANGED response

Logged(p, calls) == log' = [log EXCEPT ![p] = @ \o calls]

\* lines 95-96: the URL actually requested.
RequestUrl(url) ==
    IF StartsWith(url, HttpScheme) \/ StartsWith(url, HttpsScheme)
    THEN url ELSE HttpsScheme \o url

\* As ping_url, but with "200 <= status_code <= 300".
ping_url_inclusive(url, outcome) ==
    CASE outcome.kind = "response" ->
             [is_up |-> 200 <= outcome.code /\ outcome.code <= 300,
              status_code |-> Some(outcome.code),
              error |-> None]
      [] outcome.kind = "HTTPError" ->
             [is_up |-> FALSE, status_code |-> Some(outcome.code),
              error |-> Some("HTTPError")]
      [] OTHER ->
             [is_up |-> FALSE, status_code |-> None, error |-> Some("URLError")]

\* lines 90-121: the result of ping_url for one outcome of urlopen.
ping_url(url, outcome) ==
    CASE outcome.kind = "response" ->
             [is_up |-> 200 <= outcome.code /\ outcome.code < 300,
              status_code |-> Some(outcome.code),
              error |-> None]
      [] outcome.kind = "HTTPError" ->
             [is_up |-> FALSE, status_code |-> Some(outcome.code),
              error |-> Some("HTTPError")]
      [] OTHER ->
             [is_up |-> FALSE, status_code |-> None, error |-> Some("URLError")]

\* lines 130-138: head_object answers "found", "404" or fails otherwise;
\* anything but a normal answer is reported as "no flag".
check_flag_exists(answer) == answer = "found"

\* What head_object can answer for a key: the truth, or a failure
\* (throttling, access denied, an outage).
HeadAnswers(key) == { IF flags[key] # None THEN "found" ELSE "404", "error" }

\* lines 36-37: json.loads(...) and urls_config.get('urls', []), followed by
\* the iteration of line 42.  A string iterates over its characters.
RECURSIVE Chars(_)
Chars(s) == IF s = << >> THEN << >> ELSE << << Head(s) >> >> \o Chars(Tail(s))

\* As LoadUrls, but with urls_config['urls']: a missing key raises KeyError.
LoadUrlsStrict(doc) ==
    CASE doc.shape = "list" -> [ok |-> TRUE, urls |-> doc.urls, error |-> ""]
      [] doc.shape = "missing" -> [ok |-> FALSE, urls |-> << >>, error |-> "'urls'"]
      [] doc.shape = "string" -> [ok |-> TRUE, urls |-> Chars(doc.urls), error |-> ""]
      [] doc.shape = "number" ->
             [ok |-> FALSE, urls |-> << >>, error |-> "'int' object is not iterable"]
      [] doc.shape = "array" ->
             [ok |-> FALSE, urls |-> << >>, error |-> "'list' object has no attribute 'get'"]
      [] OTHER -> [ok |-> FALSE, urls |-> << >>, error |-> "JSONDecodeError"]

LoadUrls(doc) ==
    CASE doc.shape = "list" -> [ok |-> TRUE, urls |-> doc.urls, error |-> ""]
      [] doc.shape = "missing" -> [ok |-> TRUE, urls |-> << >>, error |-> ""]
      [] doc.shape = "string" -> [ok |-> TRUE, urls |-> Chars(doc.urls), error |-> ""]
      [] doc.shape = "number" ->
             [ok |-> FALSE, urls |-> << >>, error |-> "'int' object is not iterable"]
      [] doc.shape = "array" ->
             [ok |-> FALSE, urls |-> << >>, error |-> "'list' object has no attribute 'get'"]
      [] OTHER -> [ok |-> FALSE, urls |-> << >>, error |-> "JSONDecodeError"]

\* As Decide, but a target found down is alerted whether or not its flag exists.
DecideAlwaysAlert(is_up, fe) ==
    IF ~is_up
    THEN "create_flag"
    ELSE IF fe THEN "delete_flag" ELSE "append"

\* lines 49-67: where the handler goes once status and flag_exists are known.
Decide(is_up, fe) ==
    IF ~is_up
    THEN IF ~fe THEN "create_flag" ELSE "append"
    ELSE IF fe THEN "delete_flag" ELSE "append"

\* ------------------------------------------------------------------ actions
\* As Invoke, but testing "sns_topic_arn is None": an empty value passes.
InvokeNoneOnly(p) ==
    /\ pc[p] = "idle"
    /\ \E arn \in SnsTopicArnValues :
         /\ sns_topic_arn' = [sns_topic_arn EXCEPT ![p] = arn]
         /\ IF arn = None
            THEN /\ pc' = [pc EXCEPT ![p] = "done"]
                 /\ response' = [response EXCEPT ![p] =
                        [statusCode |-> 500,
                         body |-> [message |-> << "SNS_TOPIC_ARN environment variable is not set" >>,
                                   results |-> << >>]]]
            ELSE \/ /\ pc' = [pc EXCEPT ![p] = "get_object"]
                    /\ UNCHANGED response
                 \/ Propagate(p)
    /\ UNCHANGED << flags, alerts, config, urls, idx, status, flag_exists, results, log >>
    /\ UNCHANGED << notice, probe, timestamp >>

\* lines 17-31: read the environment; without a topic the run ends at once.
\* With a topic the S3 and SNS clients are built: boto3.client raises when it
\* cannot build one (no region, unknown profile), outside the try.
Invoke(p) ==
    /\ pc[p] = "idle"
    /\ \E arn \in SnsTopicArnValues :
         /\ sns_topic_arn' = [sns_topic_arn EXCEPT ![p] = arn]
         /\ IF arn = None \/ arn = Some("")
            THEN /\ pc' = [pc EXCEPT ![p] = "done"]
                 /\ response' = [response EXCEPT ![p] =
                        [statusCode |-> 500,
                         body |-> [message |-> << "SNS_TOPIC_ARN environment variable is not set" >>,
                                   results |-> << >>]]]
            ELSE \/ /\ pc' = [pc EXCEPT ![p] = "get_object"]
                    /\ UNCHANGED response
                 \/ Propagate(p)
    /\ UNCHANGED << flags, alerts, config, urls, idx, status, flag_exists, results, log >>
    /\ UNCHANGED << notice, probe, timestamp >>

\* lines 33-39: fetch and decode the configuration, one of docs.
GetConfigFrom(p, docs) ==
    /\ pc[p] = "get_object"
    /\ \/ /\ Logged(p, << Call("get_object", << "urls.json" >>, FALSE, "NoSuchKey") >>)
          /\ Raise(p, "NoSuchKey")
          /\ UNCHANGED << config, urls, idx, results >>
       \/ \E doc \in docs :
            LET loaded == LoadUrls(doc) IN
            /\ Logged(p, << Call("get_object", << "urls.json" >>, TRUE, doc.shape) >>)
            /\ config' = [config EXCEPT ![p] = doc]
            /\ IF loaded.ok
               THEN /\ urls' = [urls EXCEPT ![p] = loaded.urls]
                    /\ idx' = [idx EXCEPT ![p] = 1]
                    /\ results' = [results EXCEPT ![p] = << >>]
                    /\ pc' = [pc EXCEPT ![p] = "loop"]
                    /\ UNCHANGED response
               ELSE /\ Raise(p, loaded.error)
                    /\ UNCHANGED << urls, idx, results >>
    /\ UNCHANGED << flags, alerts, sns_topic_arn, status, flag_exists >>
    /\ UNCHANGED << notice, probe, timestamp >>

GetConfig(p) == GetConfigFrom(p, ConfigDocs)

\* lines 42-43: the next URL of the list is probed.
PingUrl(p) ==
    /\ pc[p] = "loop"
    /\ idx[p] <= Len(urls[p])
    /\ \E outcome \in ProbeOutcomes :
         LET st == ping_url(CurUrl(p), outcome) IN
         /\ status' = [status EXCEPT ![p] = st]
         /\ Logged(p, << Call("urlopen", RequestUrl(CurUrl(p)),
                              outcome.kind = "response", outcome.kind) >>)
         /\ alerts' = IF st.is_up THEN [alerts EXCEPT ![CurUrl(p)] = 0] ELSE alerts
    /\ pc' = [pc EXCEPT ![p] = "head_object"]
    /\ UNCHANGED << flags, sns_topic_arn, config, urls, idx, flag_exists, results, response >>
    /\ UNCHANGED << notice, probe, timestamp >>

\* lines 44-51, 56-60, 66-73: read the flag and decide; when there is nothing
\* to do the record is appended at once.
CheckFlag(p) ==
    /\ pc[p] = "head_object"
    /\ \E answer \in HeadAnswers(flag_key(p)) :
         LET fe == check_flag_exists(answer)
             next == Decide(status[p].is_up, fe)
         IN  /\ flag_exists' = [flag_exists EXCEPT ![p] = fe]
             /\ Logged(p, << Call("head_object", flag_key(p), answer # "error", answer) >>)
             /\ IF next = "append"
                THEN AppendResult(p, fe)
                ELSE /\ pc' = [pc EXCEPT ![p] = next]
                     /\ UNCHANGED << results, idx, response >>
    /\ UNCHANGED << flags, alerts, sns_topic_arn, config, urls, status >>
    /\ UNCHANGED << notice, probe, timestamp >>

\* lines 53, 148: the timestamp of the flag is int() of the 'date' header of
\* an STS call, made while the arguments of put_object are evaluated.
GetCallerIdentity(p) ==
    /\ pc[p] = "create_flag"
    /\ \/ /\ Logged(p, << Call("get_caller_identity", << >>, FALSE, "STSError") >>)
          /\ Raise(p, "STSError")
          /\ UNCHANGED timestamp
       \/ \E date \in DateHeaders :
            LET ts == ParseInt(date) IN
            /\ Logged(p, << Call("get_caller_identity", << >>, TRUE, "date") >>)
            /\ IF ts = None
               THEN /\ Raise(p, "invalid literal for int() with base 10")
                    /\ UNCHANGED timestamp
               ELSE /\ timestamp' = [timestamp EXCEPT ![p] = ts]
                    /\ pc' = [pc EXCEPT ![p] = "put_object"]
                    /\ UNCHANGED response
    /\ UNCHANGED << flags, alerts, sns_topic_arn, config, urls, idx, status, flag_exists,
                    results >>
    /\ UNCHANGED << notice, probe >>

\* As CreateFlag, but the record is appended right after the flag is stored:
\* the down-notification is forgotten.
CreateFlagNoNotify(p) ==
    /\ pc[p] = "put_object"
    /\ \/ /\ Logged(p, << Call("put_object", flag_key(p), TRUE, "") >>)
          /\ flags' = [flags EXCEPT ![flag_key(p)] =
                 Some([timestamp |-> timestamp[p][1], status |-> "down"])]
          /\ notice' = [notice EXCEPT ![flag_key(p)] = "none"]
          /\ AppendResult(p, flag_exists[p])
       \/ /\ Logged(p, << Call("put_object", flag_key(p), FALSE, "S3Error") >>)
          /\ Raise(p, "S3Error")
          /\ UNCHANGED << flags, notice, results, idx >>
    /\ timestamp' = [timestamp EXCEPT ![p] = None]
    /\ UNCHANGED << alerts, sns_topic_arn, config, urls, status, flag_exists >>
    /\ UNCHANGED probe

\* As CreateFlag, but a failing put_object is swallowed and the handler goes
\* on to notify.
CreateFlagSwallow(p) ==
    /\ pc[p] = "put_object"
    /\ \/ /\ Logged(p, << Call("put_object", flag_key(p), TRUE, "") >>)
          /\ flags' = [flags EXCEPT ![flag_key(p)] =
                 Some([timestamp |-> timestamp[p][1], status |-> "down"])]
          /\ notice' = [notice EXCEPT ![flag_key(p)] = "none"]
          /\ pc' = [pc EXCEPT ![p] = "send_notification"]
          /\ UNCHANGED response
       \/ /\ Logged(p, << Call("put_object", flag_key(p), FALSE, "S3Error") >>)
          /\ pc' = [pc EXCEPT ![p] = "send_notification"]
          /\ UNCHANGED << flags, response, notice >>
    /\ timestamp' = [timestamp EXCEPT ![p] = None]
    /\ UNCHANGED << alerts, sns_topic_arn, config, urls, idx, status, flag_exists, results >>
    /\ UNCHANGED probe

\* lines 53, 140-151: put_object stores the flag, with the timestamp computed
\* before the call.
CreateFlag(p) ==
    /\ pc[p] = "put_object"
    /\ \/ /\ Logged(p, << Call("put_object", flag_key(p), TRUE, "") >>)
          /\ flags' = [flags EXCEPT ![flag_key(p)] =
                 Some([timestamp |-> timestamp[p][1], status |-> "down"])]
          /\ notice' = [notice EXCEPT ![flag_key(p)] = "none"]
          /\ pc' = [pc EXCEPT ![p] = "send_notification"]
          /\ UNCHANGED response
       \/ /\ Logged(p, << Call("put_object", flag_key(p), FALSE, "S3Error") >>)
          /\ Raise(p, "S3Error")
          /\ UNCHANGED << flags, notice >>
    /\ timestamp' = [timestamp EXCEPT ![p] = None]
    /\ UNCHANGED << alerts, sns_topic_arn, config, urls, idx, status, flag_exists, results >>
    /\ UNCHANGED probe

\* lines 54-55, 159-177, 69-73: publish the down-notification.
SendNotification(p) ==
    /\ pc[p] = "send_notification"
    /\ \/ /\ Logged(p, << Call("publish", AlertSubject(CurUrl(p)), TRUE,
                               "down") >>)
          /\ alerts' = [alerts EXCEPT ![CurUrl(p)] =
                 IF @ < MaxAlerts THEN @ + 1 ELSE @]
          /\ notice' = [notice EXCEPT ![flag_key(p)] = "published"]
          /\ AppendResult(p, flag_exists[p])
       \/ /\ Logged(p, << Call("publish", AlertSubject(CurUrl(p)), FALSE, "down") >>)
          /\ notice' = [notice EXCEPT ![flag_key(p)] = "failed"]
          /\ Raise(p, "SNSError")
          /\ UNCHANGED << alerts, results, idx >>
    /\ UNCHANGED << flags, sns_topic_arn, config, urls, status, flag_exists >>
    /\ UNCHANGED << probe, timestamp >>

\* lines 62, 153-157: delete the flag object.
DeleteFlag(p) ==
    /\ pc[p] = "delete_flag"
    /\ \/ /\ Logged(p, << Call("delete_object", flag_key(p), TRUE, "") >>)
          /\ flags' = [flags EXCEPT ![flag_key(p)] = None]
          /\ notice' = [notice EXCEPT ![flag_key(p)] = "none"]
          /\ pc' = [pc EXCEPT ![p] = "send_recovery_notification"]
          /\ UNCHANGED response
       \/ /\ Logged(p, << Call("delete_object", flag_key(p), FALSE, "S3Error") >>)
          /\ Raise(p, "S3Error")
          /\ UNCHANGED << flags, notice >>
    /\ UNCHANGED << alerts, sns_topic_arn, config, urls, idx, status, flag_exists, results >>
    /\ UNCHANGED << probe, timestamp >>

\* lines 64-65, 179-194, 69-73: publish the recovery-notification.
SendRecoveryNotification(p) ==
    /\ pc[p] = "send_recovery_notification"
    /\ \/ /\ Logged(p, << Call("publish", RecoverySubject(CurUrl(p)), TRUE, "recovery") >>)
          /\ AppendResult(p, flag_exists[p])
       \/ /\ Logged(p, << Call("publish", RecoverySubject(CurUrl(p)), FALSE, "recovery") >>)
          /\ Raise(p, "SNSError")
          /\ UNCHANGED << results, idx >>
    /\ UNCHANGED << flags, alerts, sns_topic_arn, config, urls, status, flag_exists >>
    /\ UNCHANGED << notice, probe, timestamp >>

\* lines 75-81: the list is exhausted, the report is returned.
ReturnReport(p) ==
    /\ pc[p] = "loop"
    /\ idx[p] > Len(urls[p])
    /\ pc' = [pc EXCEPT ![p] = "done"]
    /\ response' = [response EXCEPT ![p] =
           [statusCode |-> 200,
            body |-> [message |-> << "URL ping completed" >>, results |-> results[p]]]]
    /\ UNCHANGED << flags, alerts, sns_topic_arn, config, urls, idx, status, flag_exists,
                    results, log >>
    /\ UNCHANGED << notice, probe, timestamp >>

\* The invocation has returned or raised; the execution environment is ready
\* for the next trigger and nothing of the run is kept but the flags bucket.
Finish(p) ==
    /\ pc[p] \in { "done", "raised" }
    /\ pc' = [pc EXCEPT ![p] = "idle"]
    /\ sns_topic_arn' = [sns_topic_arn EXCEPT ![p] = None]
    /\ config' = [config EXCEPT ![p] = NoConfig]
    /\ urls' = [urls EXCEPT ![p] = << >>]
    /\ idx' = [idx EXCEPT ![p] = 0]
    /\ status' = [status EXCEPT ![p] = NoStatus]
    /\ flag_exists' = [flag_exists EXCEPT ![p] = FALSE]
    /\ results' = [results EXCEPT ![p] = << >>]
    /\ response' = [response EXCEPT ![p] = NoResponse]
    /\ log' = [log EXCEPT ![p] = << >>]
    /\ UNCHANGED << flags, alerts >>
    /\ UNCHANGED << notice, probe, timestamp >>

\* One run of lambda_handler (lines 11-88), one collaborator call per step.
lambda_handler(p) ==
    \/ Invoke(p)
    \/ GetConfig(p)
    \/ PingUrl(p)
    \/ CheckFlag(p)
    \/ GetCallerIdentity(p)
    \/ CreateFlag(p)
    \/ SendNotification(p)
    \/ DeleteFlag(p)
    \/ SendRecoveryNotification(p)
    \/ ReturnReport(p)
    \/ Finish(p)

\* The scheduler triggers one invocation at a time.
Next == lambda_handler(1)

Spec == Init /\ [][Next]_vars

\* ------------------------------------------------------ ping_url on its own
\* Status codes on both sides of the 2xx range.
PingCodes == { 199, 200, 204, 299, 300, 301, 404, 500, 503 }

\* Every URL with every outcome of urlopen: a response or an HTTPError with
\* each code, or a transport failure (which carries no code).
PingInputs ==
    { [url |-> u, outcome |-> [kind |-> k, code |-> c], result |-> None] :
          u \in Urls, k \in { "response", "HTTPError" }, c \in PingCodes }
    \cup { [url |-> u, outcome |-> [kind |-> "URLError", code |-> 0], result |-> None] :
               u \in Urls }

InitPing ==
    /\ InitHandler
    /\ probe \in PingInputs

\* lines 90-121: one call of ping_url.
ApplyPing ==
    /\ probe.result = None
    /\ probe' = [probe EXCEPT !.result = Some(ping_url(probe.url, probe.outcome))]
    /\ UNCHANGED << flags, alerts, pc, sns_topic_arn, config, urls, idx, status,
                    flag_exists, results, response, log, notice, timestamp >>

NextPing == ApplyPing

SpecPing == InitPing /\ [][NextPing]_vars

\* ------------------------------------------- runs in a steady environment
\* The environment of a lasting outage of UrlB once every collaborator has
\* stopped failing: the topic is set, the configuration is a list that names
\* UrlB, S3, STS and SNS answer every call (head_object with the truth), and
\* UrlB is never probed reachable.  Other URLs are up or down at will.
Steady(p) ==
    /\ pc[p] # "idle" => sns_topic_arn[p] = Some(TopicArn)
    /\ pc[p] # "raised"
    /\ config[p] # NoConfig => (config[p].shape = "list" /\ UrlB \in Range(config[p].urls))
    /\ \A k \in 1..Len(log[p]) :
           IF log[p][k].op = "urlopen"
           THEN log[p][k].arg = RequestUrl(UrlB) => log[p][k].out # "response"
           ELSE log[p][k].ok

\* The steps of lambda_handler that such an environment allows.
NextLive ==
    \/ Invoke(1) /\ Steady(1)'
    \/ GetConfig(1) /\ Steady(1)'
    \/ PingUrl(1) /\ Steady(1)'
    \/ CheckFlag(1) /\ Steady(1)'
    \/ GetCallerIdentity(1) /\ Steady(1)'
    \/ CreateFlag(1) /\ Steady(1)'
    \/ SendNotification(1) /\ Steady(1)'
    \/ DeleteFlag(1) /\ Steady(1)'
    \/ SendRecoveryNotification(1) /\ Steady(1)'
    \/ ReturnReport(1) /\ Steady(1)'
    \/ Finish(1) /\ Steady(1)'

\* The scheduler keeps triggering the function and every started run goes on
\* to its return.
SpecLive == Init /\ [][NextLive]_vars /\ WF_vars(NextLive)

\* ------------------------------------------- the shapes of the configuration
\* lambda_handler run on the documents of ShapeDocs, with every collaborator
\* free to answer or fail as in Spec.
NextConfig ==
    \/ Invoke(1)
    \/ GetConfigFrom(1, ShapeDocs)
    \/ PingUrl(1)
    \/ CheckFlag(1)
    \/ GetCallerIdentity(1)
    \/ CreateFlag(1)
    \/ SendNotification(1)
    \/ DeleteFlag(1)
    \/ SendRecoveryNotification(1)
    \/ ReturnReport(1)
    \/ Finish(1)

SpecConfig == Init /\ [][NextConfig]_vars

\* -------------------------------------------------- overlapping invocations
\* The environment of two invocations that overlap on one target: the topic
\* is set, the configuration lists UrlB alone, and S3, STS and SNS answer
\* every call (head_object with the truth at the moment of the call).
Overlap(p) ==
    /\ pc[p] # "idle" => sns_topic_arn[p] = Some(TopicArn)
    /\ pc[p] # "raised"
    /\ config[p] # NoConfig => (config[p].shape = "list" /\ config[p].urls = << UrlB >>)
    /\ \A k \in 1..Len(log[p]) : log[p][k].op # "urlopen" => log[p][k].ok

\* Either invocation takes its next step; nothing orders the two.
NextConc ==
    \/ \E p \in Procs : Invoke(p) /\ Overlap(p)'
    \/ \E p \in Procs : GetConfig(p) /\ Overlap(p)'
    \/ \E p \in Procs : PingUrl(p) /\ Overlap(p)'
    \/ \E p \in Procs : CheckFlag(p) /\ Overlap(p)'
    \/ \E p \in Procs : GetCallerIdentity(p) /\ Overlap(p)'
    \/ \E p \in Procs : CreateFlag(p) /\ Overlap(p)'
    \/ \E p \in Procs : SendNotification(p) /\ Overlap(p)'
    \/ \E p \in Procs : DeleteFlag(p) /\ Overlap(p)'
    \/ \E p \in Procs : SendRecoveryNotification(p) /\ Overlap(p)'
    \/ \E p \in Procs : ReturnReport(p) /\ Overlap(p)'
    \/ \E p \in Procs : Finish(p) /\ Overlap(p)'

SpecConc == Init /\ [][NextConc]_vars

\* ------------------------------------------------- reading the call log
\* Number of URLs whose evaluation has started among the first k calls.
UrlopenCount(p, k) == Cardinality({ j \in 1..k : log[p][j].op = "urlopen" })

\* The URL whose evaluation the k-th call belongs to.
UrlOfCall(p, k) == urls[p][UrlopenCount(p, k)]

\* Position of the probe that opened the latest evaluation (0: none yet).
EvalStart(p) ==
    LET probes == { j \in 1..Len(log[p]) : log[p][j].op = "urlopen" }
    IN  IF probes = { } THEN 0 ELSE CHOOSE j \in probes : \A m \in probes : m <= j

EvalUrl(p) == UrlOfCall(p, Len(log[p]))

EvalCalls(p) == SubSeq(log[p], EvalStart(p), Len(log[p]))

\* The latest evaluation is over: its record was appended or the run ended.
EvalOver(p) == EvalStart(p) > 0 /\ pc[p] \in { "loop", "done" }

\* Every collaborator answered the calls of the latest evaluation (the probe
\* itself may report the target down; head_object may answer 404).
CollaboratorsAnswered(p) ==
    \A k \in (EvalStart(p) + 1)..Len(log[p]) : log[p][k].ok

IsSideEffect(c) == c.op \in { "put_object", "delete_object", "publish" }

RECURSIVE OpArgs(_)
OpArgs(calls) ==
    IF calls = << >> THEN << >>
    ELSE << << Head(calls).op, Head(calls).arg >> >> \o OpArgs(Tail(calls))

\* The flag writes and notifications of the latest evaluation, in order.
SideEffects(p) == OpArgs(SelectSeq(EvalCalls(p), IsSideEffect))

\* The table of the specification, as the calls it prescribes.
TableSideEffects(url, reachable, flagExists) ==
    IF ~reachable /\ ~flagExists
    THEN << << "put_object", FlagKey(url) >>, << "publish", AlertSubject(url) >> >>
    ELSE IF reachable /\ flagExists
         THEN << << "delete_object", FlagKey(url) >>, << "publish", RecoverySubject(url) >> >>
         ELSE << >>

FlagStoreFailed(p) ==
    \E k \in 1..Len(log[p]) :
        log[p][k].op \in { "put_object", "delete_object" } /\ ~log[p][k].ok

PublishFailed(p) ==
    \E k \in 1..Len(log[p]) : log[p][k].op = "publish" /\ ~log[p][k].ok

IsHead(c) == c.op = "head_object"
HeadCalls(p) == SelectSeq(log[p], IsHead)

\* ------------------------------------------------------------------ claims

\* C1 (as claimed): once a target has been evaluated with every collaborator
\* answering, the flag writes and notifications made for it are exactly those
\* the table prescribes for (probe reachable, flag exists as read).
C1_TableActions ==
    \A p \in Procs :
        (EvalOver(p) /\ CollaboratorsAnswered(p))
        => SideEffects(p) = TableSideEffects(EvalUrl(p), status[p].is_up, flag_exists[p])

\* C2 (as claimed): during one continuous outage of a target at most one
\* down-notification is published for it, whatever head_object answers.
C2_OneAlertPerOutage == \A u \in Urls : alerts[u] <= 1

\* C3 (as claimed): each leg of the up, down, down, up round trip, with every
\* collaborator answering and head_object telling the truth: a target found
\* down without a flag ends with its flag stored and a down-notification
\* published; found down with a flag, the flag stays and nothing is published;
\* found up with a flag, the flag is gone and a recovery is published.
C3_RoundTrip ==
    \A p \in Procs :
        (EvalOver(p) /\ CollaboratorsAnswered(p))
        => LET u == EvalUrl(p)
               published == { c[2] : c \in { SideEffects(p)[k] : k \in 1..Len(SideEffects(p)) } }
           IN  /\ (~status[p].is_up /\ ~flag_exists[p])
                    => (flags[FlagKey(u)] # None /\ AlertSubject(u) \in published)
               /\ (~status[p].is_up /\ flag_exists[p])
                    => (flags[FlagKey(u)] # None /\ SideEffects(p) = << >>)
               /\ (status[p].is_up /\ flag_exists[p])
                    => (flags[FlagKey(u)] = None /\ RecoverySubject(u) \in published)

\* C4 (as claimed): a failing put_object or delete_object does not stop the
\* run: it ends with status 200 and every configured URL has been probed.
C4_StoreFailureTolerated ==
    \A p \in Procs :
        (pc[p] = "done" /\ FlagStoreFailed(p))
        => /\ response[p].statusCode = 200
           /\ UrlopenCount(p, Len(log[p])) = Len(urls[p])

\* C5 (as claimed): a publish that fails after the flag write leaves the run
\* successful, with a record for every configured URL.
C5_PublishFailureTolerated ==
    \A p \in Procs :
        (pc[p] = "done" /\ PublishFailed(p))
        => /\ response[p].statusCode = 200
           /\ Len(response[p].body.results) = Len(urls[p])

\* C6: with SNS_TOPIC_ARN unset or empty the handler returns status 500 at
\* once: it is never anywhere but at its return, and no collaborator call of
\* any kind (config fetch, probe, flag store, notifier) has been made.
C6_MissingTopicFailsFast ==
    \A p \in Procs :
        (pc[p] # "idle" /\ (sns_topic_arn[p] = None \/ sns_topic_arn[p] = Some("")))
        => /\ pc[p] = "done"
           /\ response[p].statusCode = 500
           /\ response[p].body.message = << "SNS_TOPIC_ARN environment variable is not set" >>
           /\ log[p] = << >>
           /\ config[p] = NoConfig

\* A run with an empty SNS_TOPIC_ARN has returned, with flags in the store.
C6_Witness ==
    /\ pc[1] = "done"
    /\ sns_topic_arn[1] = Some("")
    /\ response[1].statusCode = 500
    /\ \E k \in FlagKeys : flags[k] # None

MalformedShapes == { "missing", "string", "number", "array", "invalid" }

\* C7 (as claimed): a document that is not an object with a list under
\* 'urls' makes the run fail with status 500 before any target is processed.
C7_MalformedConfigFails ==
    \A p \in Procs :
        config[p].shape \in MalformedShapes
        => /\ pc[p] = "done"
           /\ response[p].statusCode = 500
           /\ Len(log[p]) = 1

\* C7 (amended): a document that is not JSON, is not an object, or holds a
\* value that cannot be iterated under 'urls' makes the run fail with status
\* 500 before any target is processed; an object without 'urls' is read as
\* an empty list, and the run returns status 200 with an empty report and no
\* probe; a string under 'urls' is evaluated character by character.
C7_ConfigShapes ==
    \A p \in Procs :
        /\ config[p].shape \in { "number", "array", "invalid" }
             => /\ pc[p] = "done"
                /\ response[p].statusCode = 500
                /\ Len(log[p]) = 1
        /\ config[p].shape = "missing"
             => /\ pc[p] \in { "loop", "done" }
                /\ urls[p] = << >>
                /\ Len(log[p]) = 1
                /\ pc[p] = "done" =>
                       response[p] = [statusCode |-> 200,
                                      body |-> [message |-> << "URL ping completed" >>,
                                                results |-> << >>]]
        /\ config[p].shape = "string"
             => /\ Len(urls[p]) = Len(config[p].urls)
                /\ \A k \in 1..Len(urls[p]) : urls[p][k] = << config[p].urls[k] >>
                /\ \A k \in 1..Len(log[p]) :
                       log[p][k].op = "urlopen"
                       => log[p][k].arg =
                              RequestUrl(<< config[p].urls[UrlopenCount(p, k)] >>)
                /\ (pc[p] = "done" /\ response[p].statusCode = 200)
                       => /\ UrlopenCount(p, Len(log[p])) = Len(config[p].urls)
                          /\ Len(response[p].body.results) = Len(config[p].urls)

\* A run over {"urls": "bc"} has returned its report: one probe of https://b
\* and one of https://c, in this order, and two records.
C7_Witness ==
    /\ pc[1] = "done"
    /\ config[1] = [shape |-> "string", urls |-> << "b", "c" >>]
    /\ response[1].statusCode = 200
    /\ Len(response[1].body.results) = 2
    /\ response[1].body.results[1].url = UrlB
    /\ response[1].body.results[2].url = UrlC
    /\ UrlopenCount(1, Len(log[1])) = 2

\* C8: every notification published follows directly the completed flag
\* write of the same target in the same run: a down-notification follows a
\* put_object that returned, a recovery-notification a delete_object that
\* returned, both on the key of the target named in the subject.
C8_MutateThenNotify ==
    \A p \in Procs :
        \A k \in 1..Len(log[p]) :
            log[p][k].op = "publish"
            => /\ k > 1
               /\ LET u == UrlOfCall(p, k)
                      prev == log[p][k - 1]
                  IN  /\ prev.ok
                      /\ prev.arg = FlagKey(u)
                      /\ \/ /\ log[p][k].arg = AlertSubject(u)
                            /\ prev.op = "put_object"
                         \/ /\ log[p][k].arg = RecoverySubject(u)
                            /\ prev.op = "delete_object"

\* A run has published a down-notification and then a recovery-notification.
C8_Witness ==
    \E j, k \in 1..Len(log[1]) :
        /\ j < k
        /\ log[1][j].op = "publish" /\ log[1][j].out = "down" /\ log[1][j].ok
        /\ log[1][k].op = "publish" /\ log[1][k].out = "recovery" /\ log[1][k].ok

\* C9 (as claimed): any two distinct URLs of the configured list have
\* distinct flag keys.
C9_DisjointKeys ==
    \A p \in Procs :
        \A j, k \in 1..Len(urls[p]) :
            urls[p][j] # urls[p][k] => FlagKey(urls[p][j]) # FlagKey(urls[p][k])

\* C9 (amended): evaluating one URL reads and writes only the flag named by
\* that URL's own key (host with the scheme cut off and ':' replaced by '_'),
\* and leaves every flag with another key unchanged; distinct URLs can have
\* the same key, and then they share one flag.
C9_OwnKeyOnly ==
    [][ /\ \A key \in FlagKeys :
              flags'[key] # flags[key]
              => \E p \in Procs :
                     /\ pc[p] \in { "put_object", "delete_flag" }
                     /\ key = FlagKey(CurUrl(p))
        /\ \A p \in Procs :
              \A k \in 1..Len(log'[p]) :
                  log'[p][k].op \in { "head_object", "put_object", "delete_object" }
                  => log'[p][k].arg = FlagKey(urls'[p][UrlopenCount(p, k)'])
        /\ FlagKey(UrlA) = << "flags/", "a", "_", "8", ".flag" >>
        /\ FlagKey(UrlA2) = << "flags/", "a", "_", "8", ".flag" >>
        /\ FlagKey(UrlB) = << "flags/", "b", ".flag" >>
      ]_vars

\* The second target of a list got its flag while the flag of the first
\* target, under another key, stayed in the store.
C9_Witness ==
    /\ pc[1] = "send_notification"
    /\ idx[1] = 2
    /\ FlagKey(urls[1][1]) # FlagKey(urls[1][2])
    /\ flags[FlagKey(urls[1][1])] # None
    /\ flags[FlagKey(urls[1][2])] # None

\* C10: a run that returns status 200 reports one record per configured URL,
\* in list order, and the flag_exists of each record is what check_flag_exists
\* returned for that target before any flag write (true exactly when
\* head_object found the flag), not the flag's presence after the write.
C10_ReportRecords ==
    \A p \in Procs :
        (pc[p] = "done" /\ response[p].statusCode = 200)
        => LET recs == response[p].body.results IN
           /\ Len(recs) = Len(urls[p])
           /\ Len(HeadCalls(p)) = Len(urls[p])
           /\ \A k \in 1..Len(recs) :
                  /\ recs[k].url = urls[p][k]
                  /\ recs[k].flag_exists = (HeadCalls(p)[k].out = "found")
                  /\ HeadCalls(p)[k].arg = FlagKey(urls[p][k])

\* A report of two records whose first says "no flag" for a target that has
\* its flag by the end of the run, and whose second says "flag" for a target
\* whose flag is gone by the end of the run.
C10_Witness ==
    /\ pc[1] = "done"
    /\ response[1].statusCode = 200
    /\ Len(response[1].body.results) = 2
    /\ ~response[1].body.results[1].flag_exists
    /\ flags[FlagKey(urls[1][1])] # None
    /\ response[1].body.results[2].flag_exists
    /\ flags[FlagKey(urls[1][2])] = None

\* C11: ping_url returns a result for every URL and every outcome of the
\* request: a response gives is_up = (200 <= code < 300), that code and no
\* error; an HTTPError gives is_up false, the code of the error and an error
\* text; a transport failure gives is_up false, no code and an error text.
C11_PingClassifies ==
    probe.result # None
    => LET r == probe.result[1]
           o == probe.outcome
       IN  /\ o.kind = "response"
                => /\ r.is_up = (200 <= o.code /\ o.code < 300)
                   /\ r.status_code = Some(o.code)
                   /\ r.error = None
           /\ o.kind = "HTTPError"
                => /\ ~r.is_up
                   /\ r.status_code = Some(o.code)
                   /\ r.error # None
           /\ o.kind = "URLError"
                => /\ ~r.is_up
                   /\ r.status_code = None
                   /\ r.error # None

\* ping_url has returned "down" for a response with status 300.
C11_Witness ==
    /\ probe.result # None
    /\ probe.outcome = [kind |-> "response", code |-> 300]
    /\ ~probe.result[1].is_up
    /\ probe.result[1].error = None

\* C12 (as claimed): create_flag fails for no other cause than the flag
\* store: once it is over and every collaborator it called has answered,
\* put_object was called and the flag is stored under the target's key with
\* an integer timestamp and status 'down'.
C12_CreateFlagStores ==
    \A p \in Procs :
        LET n == Len(log[p]) IN
        (/\ n > 0
         /\ log[p][n].op \in { "get_caller_identity", "put_object" }
         /\ log[p][n].ok
         /\ pc[p] # "put_object")
        => /\ log[p][n].op = "put_object"
           /\ log[p][n].arg = FlagKey(UrlOfCall(p, n))
           /\ flags[log[p][n].arg] # None
           /\ flags[log[p][n].arg][1].status = "down"
           /\ flags[log[p][n].arg][1].timestamp \in Int

\* The URLs of a list have pairwise distinct flag keys.
DistinctKeys(l) ==
    \A j, k \in 1..Len(l) : j # k => FlagKey(l[j]) # FlagKey(l[k])

\* C13 (as claimed): after a run that returns status 200 over URLs with
\* pairwise distinct flag keys, the flag of each URL is in the store exactly
\* when the URL was probed unreachable in that run, also when head_object
\* failed during the run.
C13_FlagIffDown ==
    \A p \in Procs :
        (pc[p] = "done" /\ response[p].statusCode = 200 /\ DistinctKeys(urls[p]))
        => \A k \in 1..Len(urls[p]) :
               (flags[FlagKey(urls[p][k])] # None)
                   <=> ~response[p].body.results[k].status.is_up

AllIdle == \A p \in Procs : pc[p] = "idle"

\* C14 (as claimed): between runs, a flag is in the store only if a
\* down-notification has been published since the flag was written.
C14_FlagImpliesPublished ==
    AllIdle => \A key \in FlagKeys : flags[key] # None => notice[key] = "published"

\* C14 (amended): a flag is in the store, between runs and whenever a flag is
\* read or deleted, only if the publish of a down-notification for a URL with
\* that key has been called since the flag was written; the call may have
\* failed.  The only moment a flag exists without that call is the step
\* between put_object and publish.
C14_FlagImpliesAttempt ==
    \A key \in FlagKeys :
        (flags[key] # None /\ notice[key] = "none")
        => \E p \in Procs : pc[p] = "send_notification" /\ FlagKey(CurUrl(p)) = key

\* Between runs, a flag is stored whose down-notification failed.
C14_Witness ==
    /\ AllIdle
    /\ \E key \in FlagKeys : flags[key] # None /\ notice[key] = "failed"

\* C15 (as claimed): with runs triggered for ever, collaborators that no
\* longer fail and UrlB unreachable in every run, a down-notification for
\* UrlB is eventually published.
C15_EventuallyAlerted == <>(alerts[UrlB] >= 1)

\* The answer of head_object in the evaluation that the k-th call belongs to.
HeadAnswerBefore(p, k) ==
    LET heads == { j \in 1..k : log[p][j].op = "head_object" }
    IN  log[p][CHOOSE j \in heads : \A m \in heads : m <= j].out

\* C16 (as claimed): with two invocations overlapping on UrlB and every
\* collaborator answering, one outage of UrlB produces at most one
\* down-notification.
C16_OneAlertWhenOverlapping == alerts[UrlB] <= 1

\* C16 (amended): each invocation decides on its own read of the flag: it
\* publishes a down-notification only when its own head_object did not find
\* the flag and a recovery-notification only when its own head_object found
\* it, at most one per evaluation.  Two invocations that both read before
\* either writes therefore both publish.
C16_OwnReadDecides ==
    \A p \in Procs :
        /\ \A k \in 1..Len(log[p]) :
               log[p][k].op = "publish"
               => /\ log[p][k].out = "down" => HeadAnswerBefore(p, k) = "404"
                  /\ log[p][k].out = "recovery" => HeadAnswerBefore(p, k) = "found"
        /\ Cardinality({ k \in 1..Len(log[p]) : log[p][k].op = "publish" })
               <= UrlopenCount(p, Len(log[p]))

\* Both invocations, still in their runs, have published the down-notification
\* of UrlB for the same outage.
C16_Witness ==
    /\ alerts[UrlB] = 2
    /\ \A p \in Procs :
           /\ pc[p] # "idle"
           /\ \E k \in 1..Len(log[p]) :
                  /\ log[p][k].op = "publish"
                  /\ log[p][k].arg = AlertSubject(UrlB)
                  /\ log[p][k].ok

\* The most collaborator calls one evaluation makes: urlopen, head_object,
\* get_caller_identity, put_object, publish.
CallsPerUrl == 5

\* An invocation that has started and has neither returned nor raised.
Running(p) == pc[p] \notin { "idle", "done", "raised" }

\* The guards of the steps of lambda_handler: a run that has not returned is
\* at a collaborator call, with a URL under evaluation, or at the head of the
\* loop, where either the next URL is probed or the report is returned.
CanStep(p) ==
    \/ pc[p] = "get_object"
    \/ pc[p] = "loop" /\ idx[p] \in 1..(Len(urls[p]) + 1)
    \/ /\ pc[p] \in { "head_object", "create_flag", "put_object", "send_notification",
                      "delete_flag", "send_recovery_notification" }
       /\ idx[p] \in 1..Len(urls[p])

\* The state of a run: the URLs probed so far are the first entries of the
\* configured list, one probe each and in order; the calls made are bounded by
\* the length of the list; a response exists exactly when the run has
\* returned, with status 200 or 500; and a run that has not ended can always
\* take its next step.
RunBounded(p) ==
    /\ UrlopenCount(p, Len(log[p])) <= Len(urls[p])
    /\ \A k \in 1..Len(log[p]) :
           log[p][k].op = "urlopen"
           => log[p][k].arg = RequestUrl(urls[p][UrlopenCount(p, k)])
    /\ Len(log[p]) <= 1 + CallsPerUrl * Len(urls[p])
    /\ pc[p] = "done" <=> response[p] # NoResponse
    /\ pc[p] = "done" => response[p].statusCode \in { 200, 500 }
    /\ Running(p) => CanStep(p)

\* C17 (as claimed): every invocation terminates after evaluating each
\* configured URL at most once and returns a response with statusCode 200 or
\* 500; no exception leaves the handler.
C17_TerminatesWithResponse ==
    \A p \in Procs :
        /\ RunBounded(p)
        /\ pc[p] # "raised"
====
